---- MODULE Spec2Model ----
(***************************************************************************)
(* A model of .github/scripts/generate.js of arcosLand: the periodic job    *)
(* that fetches one JSON snapshot (fetchJSONWithRetry), validates it,       *)
(* optionally sends an alert e-mail (sendAlertEmail) and writes the seven   *)
(* published artifacts.  The file holds two variants of the script: the     *)
(* "offset" variant (lines 1-158, publishes minusOneDeg(raw), no alert) and *)
(* the "alerting" variant (lines 160-406, publishes raw, alerts).           *)
(*                                                                         *)
(* Numbers are fixed-point integers in thousandths (23.4 is 23400), so that *)
(* toFixed(2) is a real rounding and formatting step.                       *)
(***************************************************************************)
EXTENDS Integers, Sequences, FiniteSets, TLC

(***************************************************************************)
(* JavaScript values.  Every value is a record of the same shape:           *)
(*   t  : the type tag ("undefined", "null", "number", "string",            *)
(*        "boolean", "object", "array")                                     *)
(*   n  : a finite number in thousandths; for a non-finite number its sign  *)
(*   fin: TRUE for a finite number                                          *)
(*   s  : the text of a string; b: the boolean                              *)
(*   kv : the entries <<[k, v], ...>> of an object in insertion order (of   *)
(*        an array: the items, keyed "0", "1", ...)                         *)
(***************************************************************************)
JSVal(t, n, fin, s, kv) == [t |-> t, n |-> n, fin |-> fin, s |-> s, kv |-> kv]

Undefined == JSVal("undefined", 0, FALSE, "", <<>>)

Null == JSVal("null", 0, FALSE, "", <<>>)

Num(n) == JSVal("number", n, TRUE, "", <<>>)

PosInfinity == JSVal("number", 1, FALSE, "", <<>>)

NegInfinity == JSVal("number", -1, FALSE, "", <<>>)

Str(s) == JSVal("string", 0, FALSE, s, <<>>)

Bool(b) == JSVal("boolean", IF b THEN 1 ELSE 0, FALSE, "", <<>>)

KV(k, v) == [k |-> k, v |-> v]

Obj(kv) == JSVal("object", 0, FALSE, "", kv)

Arr(items) == JSVal("array", 0, FALSE, "", items)

\* typeof x === 'object' (true of null, of objects and of arrays)
TypeofObject(x) == x.t \in {"null", "object", "array"}

\* typeof x === 'number'
TypeofNumber(x) == x.t = "number"

\* Number.isFinite(x)
IsFinite(x) == x.t = "number" /\ x.fin

\* the truthiness of x in `!x`, `x && ...`
Truthy(x) ==
  CASE x.t \in {"undefined", "null"} -> FALSE
    [] x.t = "number" -> ~x.fin \/ x.n # 0
    [] x.t = "string" -> x.s # ""
    [] x.t = "boolean" -> x.n = 1
    [] OTHER -> TRUE

\* obj[k] / obj.k : the property k of x, undefined when x has none.
\* (generate.js only reads properties of values it has tested to be truthy.)
Get(x, k) ==
  IF x.t \in {"object", "array"} /\ \E i \in 1..Len(x.kv) : x.kv[i].k = k
    THEN x.kv[CHOOSE i \in 1..Len(x.kv) : x.kv[i].k = k].v
    ELSE Undefined

(***************************************************************************)
(* Number.prototype.toFixed(2) on thousandths: round to hundredths (ties    *)
(* away from zero; no input of the model is a tie), then print the sign,    *)
(* the integer part, a dot and two digits.                                  *)
(***************************************************************************)
Abs(n) == IF n < 0 THEN -n ELSE n

Hundredths(n) == (Abs(n) + 5) \div 10

Pad2(d) == IF d < 10 THEN "0" \o ToString(d) ELSE ToString(d)

toFixed2(n) ==
  (IF n < 0 THEN "-" ELSE "")
    \o ToString(Hundredths(n) \div 100) \o "." \o Pad2(Hundredths(n) % 100)

\* Number((v - 1).toFixed(2)) : v - 1 rounded to hundredths, as a number
MinusOneRounded(n) ==
  LET m == n - 1000 IN (IF m < 0 THEN -1 ELSE 1) * Hundredths(m) * 10

RECURSIVE minusOneDeg(_)
RECURSIVE MinusOneEntries(_, _)

\* the loop `for (const k of Object.keys(obj))` of minusOneDeg, and obj.map.
\* JSON.parse defines "__proto__" as an own property of the parsed object,
\* but the assignment out[k] = ... with k = "__proto__" on the literal {}
\* runs the __proto__ setter of Object.prototype: out gets no own property of
\* that name (kv holds the own properties, what Object.keys and
\* JSON.stringify see).
MinusOneEntries(kv, isArray) ==
  IF kv = <<>> THEN <<>>
  ELSE IF ~isArray /\ Head(kv).k = "__proto__"
    THEN MinusOneEntries(Tail(kv), isArray)
  ELSE LET e == Head(kv)
           out == IF isArray THEN minusOneDeg(e.v)
                  ELSE IF e.k = "value" /\ TypeofNumber(e.v) /\ IsFinite(e.v)
                         THEN Num(MinusOneRounded(e.v.n))
                  ELSE IF Truthy(e.v) /\ TypeofObject(e.v) THEN minusOneDeg(e.v)
                  ELSE e.v
       IN <<KV(e.k, out)>> \o MinusOneEntries(Tail(kv), isArray)

minusOneDeg(obj) ==
  IF obj.t = "null" \/ ~TypeofObject(obj) THEN obj
  ELSE IF obj.t = "array" THEN Arr(MinusOneEntries(obj.kv, TRUE))
  ELSE Obj(MinusOneEntries(obj.kv, FALSE))

(***************************************************************************)
(* Strings that are compared or joined character by character (the keys    *)
(* and the dotted paths of flattenKV) are sequences of UTF-16 code units.   *)
(***************************************************************************)
\* the code units of the key k
KeyChars(k) ==
  CASE k = "" -> <<>>
    [] k = "0" -> <<48>>
    [] k = "1" -> <<49>>
    [] k = "a" -> <<97>>
    [] k = "b" -> <<98>>
    [] k = "a-b" -> <<97, 45, 98>>
    [] k = "a.b" -> <<97, 46, 98>>
    [] k = "ts" -> <<116, 115>>
    [] k = "value" -> <<118, 97, 108, 117, 101>>
    [] k = "other" -> <<111, 116, 104, 101, 114>>
    [] k = "current" -> <<99, 117, 114, 114, 101, 110, 116>>
    [] k = "__proto__" -> <<95, 95, 112, 114, 111, 116, 111, 95, 95>>

\* "."
DotChars == <<46>>

\* a < b for strings: the order of Array.prototype.sort() without comparator
LexLess(a, b) ==
  \E i \in 1..(Len(a) + 1) :
    /\ i <= Len(b)
    /\ \A j \in 1..(i - 1) : a[j] = b[j]
    /\ i = Len(a) + 1 \/ a[i] < b[i]

InsertionOrder(kv) == kv

RECURSIVE SortedEntries(_)

\* Object.keys(obj).sort(): the entries of obj by ascending key
SortedEntries(kv) ==
  IF kv = <<>> THEN <<>>
  ELSE LET m == CHOOSE i \in 1..Len(kv) :
                  \A j \in 1..Len(kv) :
                    ~LexLess(KeyChars(kv[j].k), KeyChars(kv[i].k))
       IN <<kv[m]>> \o SortedEntries(SubSeq(kv, 1, m - 1) \o SubSeq(kv, m + 1, Len(kv)))

Pad3(d) == IF d < 100 THEN "0" \o Pad2(d) ELSE ToString(d)

\* String(v) of a finite number in thousandths: no trailing zeros
NumToString(n) ==
  LET f == Abs(n) % 1000
  IN (IF n < 0 THEN "-" ELSE "") \o ToString(Abs(n) \div 1000)
       \o (IF f = 0 THEN ""
           ELSE IF f % 100 = 0 THEN "." \o ToString(f \div 100)
           ELSE IF f % 10 = 0 THEN "." \o Pad2(f \div 10)
           ELSE "." \o Pad3(f))

\* String(v) of a value that is not a non-null object
String(v) ==
  CASE v.t = "number" ->
         IF v.fin THEN NumToString(v.n)
         ELSE IF v.n < 0 THEN "-Infinity" ELSE "Infinity"
    [] v.t = "string" -> v.s
    [] v.t = "boolean" -> IF v.n = 1 THEN "true" ELSE "false"
    [] v.t = "null" -> "null"
    [] OTHER -> "undefined"

\* the line `${path}=${val}`
Line(path, val) == [path |-> path, val |-> val]

\* prefix.replace(/\.$/, '')
StripDot(prefix) ==
  IF prefix # <<>> /\ prefix[Len(prefix)] = DotChars[1]
    THEN SubSeq(prefix, 1, Len(prefix) - 1) ELSE prefix

JoinKeyOnly(prefix, k) == KeyChars(k)

\* prefix ? `${prefix}.${k}` : k   (the empty prefix is falsy)
Join(prefix, k) ==
  IF prefix # <<>> THEN prefix \o DotChars \o KeyChars(k) ELSE KeyChars(k)

RECURSIVE flattenKV(_, _, _)
RECURSIVE FlattenEntries(_, _, _)

\* the loop `for (const k of Object.keys(obj).sort())` of flattenKV over the
\* sorted entries kv
FlattenEntries(kv, prefix, lines) ==
  IF kv = <<>> THEN lines
  ELSE LET v == Head(kv).v
           p == Join(prefix, Head(kv).k)
       IN FlattenEntries(Tail(kv), prefix,
            IF v.t # "null" /\ TypeofObject(v) THEN flattenKV(v, p, lines)
            ELSE Append(lines, Line(p, String(v))))

flattenKV(obj, prefix, lines) ==
  IF obj.t = "null" \/ ~TypeofObject(obj)
    THEN Append(lines, Line(StripDot(prefix), String(obj)))
    ELSE FlattenEntries(SortedEntries(obj.kv), prefix, lines)


(***************************************************************************)
(* The environment: what the data source can answer.                        *)
(***************************************************************************)
\* a timestamp the data source sends (an ISO text)
GoodTs == Str("2024-05-01T12:00:00Z")

\* { current: { value: v, ts: ts } }
Snapshot(v, ts) == Obj(<<KV("current", Obj(<<KV("value", v), KV("ts", ts)>>))>>)

\* the documents JSON.parse can return for the bodies the data source sends
Snapshots ==
  { Snapshot(Num(23400), GoodTs), Snapshot(Num(23996), GoodTs),
    Snapshot(Num(24000), GoodTs), Snapshot(Num(25000), GoodTs),
    Snapshot(Num(26000), GoodTs), Snapshot(Num(27504), GoodTs),
    Snapshot(PosInfinity, GoodTs), Snapshot(NegInfinity, GoodTs),
    Snapshot(Str("25"), GoodTs), Snapshot(Null, GoodTs),
    Snapshot(Num(10000), Undefined), Snapshot(Num(25000), Null),
    Snapshot(Num(23400), Num(0)), Snapshot(Num(25000), Str("")),
    Snapshot(Num(25000), Bool(FALSE)),
    Obj(<<KV("current", Obj(<<KV("ts", GoodTs)>>))>>),
    Obj(<<KV("current", Null)>>),
    Obj(<<KV("other", Num(1000))>>),
    Null, Num(5000) }

\* a response body: a JSON text (named by the document it parses to) or text
\* that JSON.parse rejects
NotJSON == Str("<html>")

Bodies == Snapshots \cup {NotJSON}

\* JSON.parse(data) succeeds
Parses(body) == body \in Snapshots

\* the status codes of the responses
Statuses == {200, 399, 400, 503}

(***************************************************************************)
(* The state of one run of the script.                                      *)
(***************************************************************************)
VARIABLES
  variant,     \* "offset" (lines 1-158) or "alerting" (lines 160-406)
  urlSet,      \* RTDB_URL is defined
  pc,          \* "start", "awaitFetch", "awaitAlert", "finished", "exited"
  exitCode,    \* the process exit code once pc = "exited", else -1
  attempt,     \* fetchJSONWithRetry: let attempt
  reqs,        \* the GET requests issued, in order: [st, fails, ok]
  timers,      \* the backoff timers set by fail: [delay, by, fired]
  fetchP,      \* the promise of fetchJSONWithRetry: [st, val, err]
  alertReq,    \* the POST of sendAlertEmail: [st, status]
  alertP,      \* the promise of sendAlertEmail: "none", "pending", ...
  alertMsgs,   \* the alert messages POSTed: [value, ts]
  files,       \* the output directory: name -> [gen, str, doc, lines]
  written,     \* the files written by this run, in order
  writeFailed, \* a filesystem call of this run threw
  arg,         \* a document handed to flattenKV or minusOneDeg on its own
  applied,     \* what has been applied to arg: "none", "flattenKV", ...
  flat,        \* flattenKV(arg)
  shifted,     \* minusOneDeg(arg)
  shiftedTwice \* minusOneDeg(minusOneDeg(arg))

\* the variables of the functions applied on their own
pureVars == <<arg, applied, flat, shifted, shiftedTwice>>

\* the variables of a run of the script
runVars == <<variant, urlSet, pc, exitCode, attempt, reqs, timers, fetchP,
             alertReq, alertP, alertMsgs, files, written, writeFailed>>

vars == <<runVars, pureVars>>

fetchVars == <<attempt, reqs, timers, fetchP>>

alertVars == <<alertReq, alertP, alertMsgs>>

fsVars == <<files, written, writeFailed>>

\* fetchJSONWithRetry(url, retries = 3, baseDelay = 600, timeoutMs = 8000)
retries == 3

baseDelay == 600

\* the files the script writes, in the order of its writeFileSync calls
Artifacts ==
  <<"current.txt", "txt", "data.json", "index.html", "_headers", "robots.txt",
    "sitemap.xml">>

ArtifactNames == {Artifacts[i] : i \in 1..Len(Artifacts)}

NoErr == [att |-> 0, kind |-> ""]

\* the output directory as an earlier successful run left it
PrevFiles ==
  [f \in ArtifactNames |-> [gen |-> "prev", str |-> "", doc |-> Undefined, lines |-> <<>>]]

Init ==
  /\ variant \in {"offset", "alerting"}
  /\ urlSet \in BOOLEAN
  /\ pc = "start"
  /\ exitCode = -1
  /\ attempt = 0
  /\ reqs = <<>>
  /\ timers = <<>>
  /\ fetchP = [st |-> "pending", val |-> Undefined, err |-> NoErr]
  /\ alertReq = [st |-> "none", status |-> 0]
  /\ alertP = "none"
  /\ alertMsgs = <<>>
  /\ files = PrevFiles
  /\ written = <<>>
  /\ writeFailed = FALSE
  /\ arg = Undefined
  /\ applied = "none"
  /\ flat = <<>>
  /\ shifted = Undefined
  /\ shiftedTwice = Undefined


(***************************************************************************)
(* The event loop.  The continuation of an await runs as a microtask, right *)
(* after the callback that settled the promise and before any other event.  *)
(***************************************************************************)
MicrotaskPending ==
  \/ pc = "awaitFetch" /\ fetchP.st # "pending"
  \/ pc = "awaitAlert" /\ alertP # "pending"

\* a network or timer callback can run
CanDeliver == pc \in {"awaitFetch", "awaitAlert", "finished"} /\ ~MicrotaskPending

\* resolve / reject settle a promise once; later calls do nothing
Settle(p, st, val, err) ==
  IF p.st = "pending" THEN [st |-> st, val |-> val, err |-> err] ELSE p

(***************************************************************************)
(* fetchJSONWithRetry.  A request is "sent" until its response arrives,     *)
(* then "body" (status < 400, the 'end' listener is set) or "drain" (status *)
(* >= 400, res.resume()), "destroyed" after req.destroy(err) until the      *)
(* 'error' event is delivered, and "closed" at the end.                     *)
(***************************************************************************)
OpenStates == {"sent", "body", "drain", "destroyed"}

\* const tryOnce = () => { attempt++; const req = https.get(...); ... }
tryOnce ==
  /\ attempt' = attempt + 1
  /\ reqs' = Append(reqs, [st |-> "sent", fails |-> 0, ok |-> FALSE])

\* if (attempt >= retries)
Exhausted == attempt >= retries

\* baseDelay * Math.pow(2, attempt - 1)
BackoffDelay == baseDelay * 2^(attempt - 1)

\* function fail(err), called by request r with an error of the given kind
fail(r, kind) ==
  IF Exhausted
    THEN /\ fetchP' = Settle(fetchP, "rejected", Undefined, [att |-> r, kind |-> kind])
         /\ UNCHANGED timers
    ELSE /\ timers' = Append(timers, [delay |-> BackoffDelay, by |-> r, fired |-> FALSE])
         /\ UNCHANGED fetchP

\* the request r after one more call of fail, in state st
Failed(r, st) == [reqs EXCEPT ![r].st = st, ![r].fails = @ + 1]

\* the callback of https.get: (res) => { if (res.statusCode >= 400) ... }
GetResponse(r, status) ==
  /\ CanDeliver
  /\ reqs[r].st = "sent"
  /\ IF status # 0 /\ status >= 400
       THEN /\ reqs' = Failed(r, "drain")
            /\ fail(r, "http")
       ELSE /\ reqs' = [reqs EXCEPT ![r].st = "body"]
            /\ UNCHANGED <<timers, fetchP>>
  /\ UNCHANGED <<pureVars, variant, urlSet, pc, exitCode, attempt, alertVars, fsVars>>

\* res.on('end', () => { try { resolve(JSON.parse(data)) } catch (e) { fail(...) } })
ResEnd(r, body) ==
  /\ CanDeliver
  /\ reqs[r].st = "body"
  /\ IF Parses(body)
       THEN /\ reqs' = [reqs EXCEPT ![r].st = "closed", ![r].ok = TRUE]
            /\ fetchP' = Settle(fetchP, "resolved", body, NoErr)
            /\ UNCHANGED timers
       ELSE /\ reqs' = Failed(r, "closed")
            /\ fail(r, "parse")
  /\ UNCHANGED <<pureVars, variant, urlSet, pc, exitCode, attempt, alertVars, fsVars>>

\* res.resume(): the body of a status >= 400 response is read to its end and
\* discarded; nobody listens to its 'end'
ResDrained(r) ==
  /\ CanDeliver
  /\ reqs[r].st = "drain"
  /\ reqs' = [reqs EXCEPT ![r].st = "closed"]
  /\ UNCHANGED <<pureVars, variant, urlSet, pc, exitCode, attempt, timers, fetchP,
                 alertVars, fsVars>>

\* req.setTimeout(timeoutMs, () => req.destroy(new Error('Timeout'))): the
\* socket stayed idle for timeoutMs, before or after the response headers
ReqTimeout(r) ==
  /\ CanDeliver
  /\ reqs[r].st \in {"sent", "body", "drain"}
  /\ reqs' = [reqs EXCEPT ![r].st = "destroyed"]
  /\ UNCHANGED <<pureVars, variant, urlSet, pc, exitCode, attempt, timers, fetchP,
                 alertVars, fsVars>>

\* req.on('error', fail): the socket failed, or req.destroy(err) was called;
\* the event is emitted once, also after the response callback has run
ReqError(r) ==
  /\ CanDeliver
  /\ reqs[r].st \in OpenStates
  /\ reqs' = Failed(r, "closed")
  /\ fail(r, IF reqs[r].st = "destroyed" THEN "timeout" ELSE "net")
  /\ UNCHANGED <<pureVars, variant, urlSet, pc, exitCode, attempt, alertVars, fsVars>>

\* the connection is closed by the peer after the response headers and before
\* the end of the body: the response emits 'aborted' and 'close', which have
\* no listener; neither 'end' nor the request's 'error' is emitted
ResAborted(r) ==
  /\ CanDeliver
  /\ reqs[r].st \in {"body", "drain"}
  /\ reqs' = [reqs EXCEPT ![r].st = "closed"]
  /\ UNCHANGED <<pureVars, variant, urlSet, pc, exitCode, attempt, timers, fetchP,
                 alertVars, fsVars>>

\* setTimeout(tryOnce, delay): the delay of timer i has passed, tryOnce runs
TimerFire(i) ==
  /\ CanDeliver
  /\ ~timers[i].fired
  /\ timers' = [timers EXCEPT ![i].fired = TRUE]
  /\ tryOnce
  /\ UNCHANGED <<pureVars, variant, urlSet, pc, exitCode, fetchP, alertVars, fsVars>>

(***************************************************************************)
(* The main function: validation, the alert decision, the artifacts.        *)
(***************************************************************************)
\* a validation that does not look at current.ts
InvalidWithoutTs(raw) ==
  \/ ~Truthy(raw)
  \/ ~Truthy(Get(raw, "current"))
  \/ ~TypeofNumber(Get(Get(raw, "current"), "value"))

\* a validation that also rejects a value that is not finite
InvalidUnlessFinite(raw) ==
  \/ ~Truthy(raw)
  \/ ~Truthy(Get(raw, "current"))
  \/ ~IsFinite(Get(Get(raw, "current"), "value"))
  \/ ~Truthy(Get(Get(raw, "current"), "ts"))

\* if (!raw || !raw.current || typeof raw.current.value !== 'number' || !raw.current.ts)
Invalid(raw) ==
  \/ ~Truthy(raw)
  \/ ~Truthy(Get(raw, "current"))
  \/ ~TypeofNumber(Get(Get(raw, "current"), "value"))
  \/ ~Truthy(Get(Get(raw, "current"), "ts"))

\* the limits of `tempRaw < 24 || tempRaw > 26`, in thousandths
MinTemp == 24000

MaxTemp == 26000

\* an alert decision that takes the limits themselves as out of range
AlertNeededAtLimits(tempRaw) ==
  IsFinite(tempRaw) /\ (tempRaw.n <= MinTemp \/ tempRaw.n >= MaxTemp)

\* if (Number.isFinite(tempRaw)) { if (tempRaw < 24 || tempRaw > 26) { ... send
AlertNeeded(tempRaw) ==
  IsFinite(tempRaw) /\ (tempRaw.n < MinTemp \/ tempRaw.n > MaxTemp)

\* new Date(ts).toLocaleString('pt-BR', { timeZone: 'America/Sao_Paulo' })
Localize(ts) == IF ts = GoodTs THEN "01/05/2024, 09:00:00" ELSE "Invalid Date"

\* Number.isFinite(v) ? v.toFixed(2) : 'N/A'
CurrentStrMinusOne(v) ==
  IF IsFinite(v) THEN toFixed2(MinusOneRounded(v.n)) ELSE "N/A"

CurrentStr(v) == IF IsFinite(v) THEN toFixed2(v.n) ELSE "N/A"

\* the text sendAlertEmail puts in the subject and the body of the message
AlertMessage(tempRaw, tsBr) == [value |-> toFixed2(tempRaw.n), ts |-> tsBr]

\* the content of the artifact f, rendered from the document doc
FileContent(f, doc, currentStr) ==
  LET file(str, d, lines) == [gen |-> "cur", str |-> str, doc |-> d, lines |-> lines]
  IN CASE f = "current.txt" -> file(currentStr, Undefined, <<>>)
       [] f = "txt" -> file("", Undefined, flattenKV(doc, <<>>, <<>>))
       [] f = "data.json" -> file("", doc, <<>>)
       [] f = "index.html" -> file(currentStr, doc, <<>>)
       [] OTHER -> file("", Undefined, <<>>)

Position(f) == CHOOSE i \in 1..Len(Artifacts) : Artifacts[i] = f

ExitOne(code) == pc' = "exited" /\ exitCode' = 1

\* process.exit(code)
Exit(code) == pc' = "exited" /\ exitCode' = code

WriteArtifactsUnchecked(doc, currentStr, n) ==
  /\ files' = [f \in ArtifactNames |->
                 IF Position(f) <= n THEN FileContent(f, doc, currentStr) ELSE files[f]]
  /\ written' = SubSeq(Artifacts, 1, n)
  /\ writeFailed' = (n < Len(Artifacts))
  /\ pc' = "finished" /\ UNCHANGED exitCode

\* mkdirSync and the seven writeFileSync calls, in order; the first n writes
\* succeed and, when n < 7, the next filesystem call throws, which the catch
\* handler of main turns into process.exit(1)
WriteArtifacts(doc, currentStr, n) ==
  /\ files' = [f \in ArtifactNames |->
                 IF Position(f) <= n THEN FileContent(f, doc, currentStr) ELSE files[f]]
  /\ written' = SubSeq(Artifacts, 1, n)
  /\ writeFailed' = (n < Len(Artifacts))
  /\ IF n < Len(Artifacts) THEN Exit(1) ELSE pc' = "finished" /\ UNCHANGED exitCode

\* sendAlertEmail(tempRaw, tsBr): builds the message, req.write, req.end
sendAlertEmail(tempRaw, tsBr) ==
  /\ alertMsgs' = Append(alertMsgs, AlertMessage(tempRaw, tsBr))
  /\ alertReq' = [st |-> "sent", status |-> 0]
  /\ alertP' = "pending"

\* the top of the script: the RTDB_URL check, then main up to its first await
Start ==
  /\ pc = "start"
  /\ IF ~urlSet
       THEN /\ Exit(2)
            /\ UNCHANGED <<attempt, reqs>>
       ELSE /\ tryOnce
            /\ pc' = "awaitFetch"
            /\ UNCHANGED exitCode
  /\ UNCHANGED <<pureVars, variant, urlSet, timers, fetchP, alertVars, fsVars>>

\* the offset variant: main after `await fetchJSONWithRetry(RTDB_URL)` to its
\* end; it publishes adj = minusOneDeg(raw) and sends no alert
MainOffset ==
  /\ variant = "offset"
  /\ pc = "awaitFetch"
  /\ fetchP.st # "pending"
  /\ LET raw == fetchP.val
         adj == minusOneDeg(raw)
     IN IF fetchP.st = "rejected" \/ Invalid(raw)
          THEN /\ Exit(1)
               /\ UNCHANGED fsVars
          ELSE \E n \in 0..Len(Artifacts) :
                 WriteArtifacts(adj, CurrentStr(Get(Get(adj, "current"), "value")), n)
  /\ UNCHANGED <<pureVars, variant, urlSet, fetchVars, alertVars>>

\* the alerting variant: main after `await fetchJSONWithRetry(RTDB_URL)`, up
\* to `await sendAlertEmail(tempRaw, tsBr)` or, with no alert, to its end
MainAlerting ==
  /\ variant = "alerting"
  /\ pc = "awaitFetch"
  /\ fetchP.st # "pending"
  /\ LET raw == fetchP.val
         tempRaw == Get(Get(raw, "current"), "value")
         tsBr == Localize(Get(Get(raw, "current"), "ts"))
     IN IF fetchP.st = "rejected" \/ Invalid(raw)
          THEN /\ Exit(1)
               /\ UNCHANGED <<alertVars, fsVars>>
          ELSE IF AlertNeeded(tempRaw)
            THEN /\ sendAlertEmail(tempRaw, tsBr)
                 /\ pc' = "awaitAlert"
                 /\ UNCHANGED <<exitCode, fsVars>>
          ELSE /\ \E n \in 0..Len(Artifacts) : WriteArtifacts(raw, CurrentStr(tempRaw), n)
               /\ UNCHANGED alertVars
  /\ UNCHANGED <<pureVars, variant, urlSet, fetchVars>>

\* main after `await sendAlertEmail(...)`: the try/catch logs, then the
\* artifacts are written from raw
MainAfterAlert ==
  /\ pc = "awaitAlert"
  /\ alertP \in {"resolved", "rejected"}
  /\ LET raw == fetchP.val
     IN \E n \in 0..Len(Artifacts) :
          WriteArtifacts(raw, CurrentStr(Get(Get(raw, "current"), "value")), n)
  /\ UNCHANGED <<pureVars, variant, urlSet, fetchVars, alertVars>>

(***************************************************************************)
(* sendAlertEmail's request: "sent", then "body" once the response callback *)
(* has set the 'data' and 'end' listeners, "destroyed", "closed".           *)
(***************************************************************************)
\* resolve / reject of the promise of sendAlertEmail
SettleAlert(st) == IF alertP = "pending" THEN st ELSE alertP

\* https.request(options, (res) => { ... res.on('end', ...) })
AlertResponse(status) ==
  /\ CanDeliver
  /\ alertReq.st = "sent"
  /\ alertReq' = [st |-> "body", status |-> status]
  /\ UNCHANGED <<pureVars, variant, urlSet, pc, exitCode, fetchVars, alertP, alertMsgs,
                 fsVars>>

\* res.on('end', () => { if (res.statusCode >= 400) return reject(...); resolve(); })
AlertEnd ==
  /\ CanDeliver
  /\ alertReq.st = "body"
  /\ alertReq' = [alertReq EXCEPT !.st = "closed"]
  /\ IF alertReq.status # 0 /\ alertReq.status >= 400
       THEN alertP' = SettleAlert("rejected")
       ELSE alertP' = SettleAlert("resolved")
  /\ UNCHANGED <<pureVars, variant, urlSet, pc, exitCode, fetchVars, alertMsgs, fsVars>>

\* req.on('timeout', () => req.destroy(new Error('Timeout no envio de e-mail')))
AlertTimeout ==
  /\ CanDeliver
  /\ alertReq.st \in {"sent", "body"}
  /\ alertReq' = [alertReq EXCEPT !.st = "destroyed"]
  /\ UNCHANGED <<pureVars, variant, urlSet, pc, exitCode, fetchVars, alertP, alertMsgs, fsVars>>

\* req.on('error', reject)
AlertError ==
  /\ CanDeliver
  /\ alertReq.st \in {"sent", "body", "destroyed"}
  /\ alertReq' = [alertReq EXCEPT !.st = "closed"]
  /\ alertP' = SettleAlert("rejected")
  /\ UNCHANGED <<pureVars, variant, urlSet, pc, exitCode, fetchVars, alertMsgs, fsVars>>

\* the connection is closed after the response headers and before the end of
\* the body: 'aborted' and 'close' on the response, which have no listener
AlertAborted ==
  /\ CanDeliver
  /\ alertReq.st = "body"
  /\ alertReq' = [alertReq EXCEPT !.st = "closed"]
  /\ UNCHANGED <<pureVars, variant, urlSet, pc, exitCode, fetchVars, alertP, alertMsgs, fsVars>>

(***************************************************************************)
(* The process ends with code 0 when nothing is left to run: no open        *)
(* request, no pending timer, no microtask.                                 *)
(***************************************************************************)
OpenReqs == {r \in 1..Len(reqs) : reqs[r].st \in OpenStates}

PendingTimers == {i \in 1..Len(timers) : ~timers[i].fired}

LoopDrain ==
  /\ CanDeliver
  /\ OpenReqs = {}
  /\ PendingTimers = {}
  /\ alertReq.st \in {"none", "closed"}
  /\ Exit(0)
  /\ UNCHANGED <<pureVars, variant, urlSet, fetchVars, alertVars, fsVars>>

Next ==
  \/ Start
  \/ \E r \in 1..Len(reqs), status \in Statuses : GetResponse(r, status)
  \/ \E r \in 1..Len(reqs), body \in Bodies : ResEnd(r, body)
  \/ \E r \in 1..Len(reqs) : ResDrained(r)
  \/ \E r \in 1..Len(reqs) : ReqTimeout(r)
  \/ \E r \in 1..Len(reqs) : ReqError(r)
  \/ \E r \in 1..Len(reqs) : ResAborted(r)
  \/ \E i \in 1..Len(timers) : TimerFire(i)
  \/ MainOffset
  \/ MainAlerting
  \/ MainAfterAlert
  \/ \E status \in Statuses : AlertResponse(status)
  \/ AlertEnd
  \/ AlertTimeout
  \/ AlertError
  \/ AlertAborted
  \/ LoopDrain

Spec == Init /\ [][Next]_vars


(***************************************************************************)
(* flattenKV and minusOneDeg on their own, applied to parsed documents of   *)
(* any shape (the script's validation lets only some of them through).      *)
(***************************************************************************)
\* the keys of the documents
Keys == {"a", "a-b", "a.b", "", "value", "__proto__"}

\* the values under those keys
Values ==
  { Num(25004), Null, PosInfinity, Arr(<<>>),
    Obj(<<KV("b", Str("x"))>>),
    Obj(<<KV("value", Num(23456)),
          KV("b", Arr(<<KV("0", Obj(<<KV("value", Num(-500))>>)),
                        KV("1", Num(2000))>>))>>) }

\* the largest number of keys of a document
MaxKeys == 2

\* the entry lists of n distinct keys, in every insertion order
Entries(n) ==
  { e \in [1..n -> [k : Keys, v : Values]] :
      \A i, j \in 1..n : i # j => e[i].k # e[j].k }

\* the documents: scalars, null, objects, and arrays of one item
Docs ==
  {Num(5000), Null}
    \cup UNION {{Obj(e) : e \in Entries(n)} : n \in 0..MaxKeys}
    \cup {Arr(<<KV("0", v)>>) : v \in Values}

InitFunctions ==
  /\ variant = "offset"
  /\ urlSet = TRUE
  /\ pc = "start"
  /\ exitCode = -1
  /\ attempt = 0
  /\ reqs = <<>>
  /\ timers = <<>>
  /\ fetchP = [st |-> "pending", val |-> Undefined, err |-> NoErr]
  /\ alertReq = [st |-> "none", status |-> 0]
  /\ alertP = "none"
  /\ alertMsgs = <<>>
  /\ files = PrevFiles
  /\ written = <<>>
  /\ writeFailed = FALSE
  /\ arg \in Docs
  /\ applied = "none"
  /\ flat = <<>>
  /\ shifted = Undefined
  /\ shiftedTwice = Undefined

\* flattenKV(arg)
ApplyFlattenKV ==
  /\ applied = "none"
  /\ flat' = flattenKV(arg, <<>>, <<>>)
  /\ applied' = "flattenKV"
  /\ UNCHANGED <<runVars, arg, shifted, shiftedTwice>>

\* minusOneDeg(arg)
ApplyMinusOneDeg ==
  /\ applied = "none"
  /\ shifted' = minusOneDeg(arg)
  /\ applied' = "minusOneDeg"
  /\ UNCHANGED <<runVars, arg, flat, shiftedTwice>>

\* minusOneDeg(minusOneDeg(arg))
ApplyMinusOneDegAgain ==
  /\ applied = "minusOneDeg"
  /\ shiftedTwice' = minusOneDeg(shifted)
  /\ applied' = "minusOneDegTwice"
  /\ UNCHANGED <<runVars, arg, flat, shifted>>

NextFunctions ==
  \/ ApplyFlattenKV
  \/ ApplyMinusOneDeg
  \/ ApplyMinusOneDegAgain

SpecFunctions == InitFunctions /\ [][NextFunctions]_vars


(***************************************************************************)
(* What the run has done so far, read off the state.                        *)
(***************************************************************************)
\* fail has been called for the request r
AttemptFailed(r) == reqs[r].fails >= 1

\* the timers that fail has set for the request r
TimersBy(r) == {i \in 1..Len(timers) : timers[i].by = r}

\* the attempts that are in flight or have a pending backoff timer
ActiveAttempts ==
  {r \in 1..Len(reqs) :
     reqs[r].st \in OpenStates \/ \E i \in TimersBy(r) : ~timers[i].fired}

RECURSIVE SumFired(_)
\* the sum of the delays of the timers of ts that have fired
SumFired(ts) ==
  IF ts = <<>> THEN 0
  ELSE (IF Head(ts).fired THEN Head(ts).delay ELSE 0) + SumFired(Tail(ts))

\* the backoff delay the run has waited: every timer that fired waited at
\* least its delay
Waited == SumFired(timers)

\* main has resumed after the fetch resolved
FetchDone == fetchP.st = "resolved" /\ pc # "awaitFetch"

RawValue == Get(Get(fetchP.val, "current"), "value")

RawTs == Get(Get(fetchP.val, "current"), "ts")

\* the POST of the alert failed: destroyed by its timeout, or closed without
\* the promise being resolved (error, status >= 400, connection cut)
AlertFailed ==
  \/ alertReq.st = "destroyed"
  \/ alertReq.st = "closed" /\ alertP # "resolved"

(***************************************************************************)
(* The claims.                                                              *)
(***************************************************************************)
\* C1: one call of fetchJSONWithRetry never issues more than `retries` GET
\* requests, whatever the order of the response, end, error and timeout
\* callbacks.
C1_GetsBounded == Len(reqs) <= retries

\* C2: retries are sequential: at most one attempt is in flight or has a
\* pending backoff timer; no attempt starts while an earlier one can still
\* deliver a callback.
C2_Sequential == Cardinality(ActiveAttempts) <= 1

\* C3: when all `retries` attempts have failed the promise is rejected, with
\* the error of the last attempt (attempt number `retries`), and once it is
\* rejected no further attempt is scheduled or started.
C3_RejectsWithLastError ==
  /\ (Len(reqs) >= retries /\ \A r \in 1..retries : AttemptFailed(r))
       => fetchP.st = "rejected"
  /\ fetchP.st = "rejected"
       => /\ fetchP.err.att = retries
          /\ Len(reqs) = retries
          /\ PendingTimers = {}

\* C4: every failed attempt n < retries schedules exactly one next attempt,
\* with the delay baseDelay * 2^(n-1).
C4_OneRetryPerFailure ==
  \A r \in 1..Len(reqs) :
    (r < retries /\ AttemptFailed(r))
      => /\ Cardinality(TimersBy(r)) = 1
         /\ \A i \in TimersBy(r) : timers[i].delay = baseDelay * 2^(r - 1)

\* C5: if the first k < retries attempts fail and attempt k+1 delivers a
\* parseable body, the promise resolves after exactly k+1 GET requests, and
\* the backoff waited is at least the sum of the k delays,
\* baseDelay * (2^k - 1).
C5_FailThenSucceed ==
  \A k \in 0..(retries - 1) :
    ( /\ Len(reqs) >= k + 1
      /\ \A r \in 1..k : AttemptFailed(r)
      /\ reqs[k + 1].ok )
      => /\ fetchP.st = "resolved"
         /\ fetchP.val \in Snapshots
         /\ Len(reqs) = k + 1
         /\ Waited >= baseDelay * (2^k - 1)


\* C6: a failed alert POST never fails the run: a run that ended after the
\* POST failed, with no filesystem error, ended with code 0 and has written
\* all seven artifacts.
C6_AlertFailureSwallowed ==
  (variant = "alerting" /\ AlertFailed /\ pc = "exited" /\ ~writeFailed)
    => exitCode = 0 /\ written = Artifacts

\* C7: with a validated snapshot the alerting variant POSTs exactly one alert
\* when the raw value is finite and below 24 or above 26, and none otherwise;
\* the message carries the raw value with 2 decimals (23.4 as "23.40"), and
\* an alert is never sent twice.  The offset variant never alerts.
C7_AlertExactlyWhenOutOfRange ==
  /\ Len(alertMsgs) <= 1
  /\ variant = "offset" => alertMsgs = <<>>
  /\ (variant = "alerting" /\ FetchDone /\ ~(pc = "exited" /\ exitCode = 1 /\ ~writeFailed))
       => /\ Len(alertMsgs) =
               IF RawValue.fin /\ (RawValue.n < 24000 \/ RawValue.n > 26000) THEN 1 ELSE 0
          /\ RawValue = Num(23400) => alertMsgs[1].value = "23.40"
          /\ RawValue = Num(23996) => alertMsgs[1].value = "24.00"
          /\ RawValue = Num(27504) => alertMsgs[1].value = "27.50"
          /\ RawValue \in {Num(24000), Num(25000), Num(26000)} => alertMsgs = <<>>

\* a run of the alerting variant that has sent the alert for 23.4 and ended
C7_Witness ==
  /\ variant = "alerting"
  /\ RawValue = Num(23400)
  /\ Len(alertMsgs) = 1
  /\ alertMsgs[1].value = "23.40"
  /\ pc = "exited"
  /\ exitCode = 0

\* the snapshot has no current object, a current.value that is not a number,
\* or no current.ts
MissingValueOrTs(raw) ==
  \/ Get(raw, "current").t # "object"
  \/ Get(Get(raw, "current"), "value").t # "number"
  \/ Get(Get(raw, "current"), "ts").t \in {"undefined", "null"}

\* C8: a snapshot with no current object, a non-number current.value or no
\* current.ts ends the run with exit code 1, and the run writes no file.
C8_InvalidSnapshotIsFatal ==
  (FetchDone /\ MissingValueOrTs(fetchP.val))
    => /\ pc = "exited"
       /\ exitCode = 1
       /\ written = <<>>
       /\ files = PrevFiles
       /\ ~writeFailed

\* a run that got { current: { value: 10 } } (no ts) and exited with code 1
C8_Witness ==
  /\ FetchDone
  /\ fetchP.val = Snapshot(Num(10000), Undefined)
  /\ pc = "exited"
  /\ exitCode = 1
  /\ written = <<>>

\* C9: a failed run leaves no partial artifact set: when the run exits with
\* code 1 it has written no file, and the files of the previous run are
\* untouched.
C9_NoPartialArtifacts ==
  (pc = "exited" /\ exitCode = 1) => (written = <<>> /\ files = PrevFiles)

\* the snapshot's current.value is a number that is not finite, in a
\* snapshot that is otherwise complete
NonFiniteValue(raw) ==
  /\ RawValue.t = "number"
  /\ ~RawValue.fin
  /\ RawTs = GoodTs

\* C10 as stated: a current.value of number type that is not finite is a
\* fatal validation failure: the run exits with code 1 and writes nothing
\* (runs in which a filesystem call fails are left aside).
C10_NonFiniteIsFatal ==
  (FetchDone /\ NonFiniteValue(fetchP.val) /\ ~writeFailed)
    => pc = "exited" /\ exitCode = 1 /\ written = <<>>

\* C10 amended: validation asks only that current.value is of number type.  A
\* snapshot whose value is Infinity or -Infinity passes it: no alert is sent,
\* the run fails only if a filesystem call fails, and current.txt, once
\* written, holds N/A.
C10_NonFinitePublishedAsNA ==
  (FetchDone /\ NonFiniteValue(fetchP.val))
    => /\ alertMsgs = <<>>
       /\ pc \in {"finished", "exited"}
       /\ (pc = "exited" /\ exitCode = 1) => writeFailed
       /\ written # <<>> => files["current.txt"] = [gen |-> "cur", str |-> "N/A", doc |-> Undefined, lines |-> <<>>]
       /\ ~writeFailed => written = Artifacts

\* a run that got current.value = Infinity and published all seven artifacts
C10_Witness ==
  /\ FetchDone
  /\ RawValue = PosInfinity
  /\ pc = "exited"
  /\ exitCode = 0
  /\ written = Artifacts
  /\ files["current.txt"].str = "N/A"


\* the snapshot has a current object, a finite number as current.value and a
\* current.ts that is present and not null
HasValueAndTs(raw) ==
  /\ Get(raw, "current").t = "object"
  /\ IsFinite(Get(Get(raw, "current"), "value"))
  /\ Get(Get(raw, "current"), "ts").t \notin {"undefined", "null"}

\* C11: validation accepts every snapshot with a current object, a finite
\* numeric current.value and a non-null current.ts (0, "" and false
\* included): such a run is not ended by validation, it proceeds to the
\* alert decision and the artifacts.
C11_AnyNonNullTsAccepted ==
  (FetchDone /\ HasValueAndTs(fetchP.val))
    => ~(pc = "exited" /\ exitCode = 1 /\ ~writeFailed)


\* the file f has been written by this run
Written(f) == \E i \in 1..Len(written) : written[i] = f

\* the path current.value of the lines of txt
CurrentValuePath == KeyChars("current") \o DotChars \o KeyChars("value")

\* C12: a run makes one fetch and computes the alert and every artifact
\* from the one snapshot it resolved to: in the alerting variant the run
\* sends at most one alert message, and the value in it is the value written
\* to current.txt, the current.value of data.json and the current.value line
\* of txt; data.json and the page hold the fetched document.
C12_OneSnapshotEverywhere ==
  (variant = "alerting" /\ alertMsgs # <<>>)
    => /\ Len(alertMsgs) = 1
       /\ FetchDone
       /\ alertMsgs[1].value = toFixed2(RawValue.n)
       /\ Written("current.txt") => files["current.txt"].str = alertMsgs[1].value
       /\ Written("txt") =>
            \E i \in 1..Len(files["txt"].lines) :
              /\ files["txt"].lines[i].path = CurrentValuePath
              /\ files["txt"].lines[i].val = NumToString(RawValue.n)
       /\ Written("data.json") =>
            /\ files["data.json"].doc = fetchP.val
            /\ toFixed2(Get(Get(files["data.json"].doc, "current"), "value").n)
                 = alertMsgs[1].value
       /\ Written("index.html") =>
            /\ files["index.html"].doc = fetchP.val
            /\ files["index.html"].str = alertMsgs[1].value

\* a run of the alerting variant that alerted for 27.504 and wrote every file
C12_Witness ==
  /\ variant = "alerting"
  /\ Len(alertMsgs) = 1
  /\ alertMsgs[1].value = "27.50"
  /\ files["current.txt"].str = "27.50"
  /\ files["txt"].lines # <<>>
  /\ written = Artifacts
  /\ pc = "finished"


\* C13: the exit codes tell the outcomes apart.  The run exits with code 2
\* exactly when RTDB_URL is not configured, and then it has issued no GET and
\* written no file; a run whose fetch was rejected, whose snapshot failed the
\* validation or whose write threw exits with code 1, and code 1 has no
\* other cause (a failed alert is not one); a run that wrote all seven
\* artifacts exits with code 0.
C13_ExitCodes ==
  pc = "exited"
    => /\ exitCode \in {0, 1, 2}
       /\ exitCode = 2 <=> ~urlSet
       /\ exitCode = 2 => reqs = <<>> /\ written = <<>> /\ files = PrevFiles
       /\ exitCode = 1 <=>
            \/ fetchP.st = "rejected"
            \/ fetchP.st = "resolved" /\ Invalid(fetchP.val)
            \/ writeFailed
       /\ (written = Artifacts /\ ~writeFailed) => exitCode = 0
       /\ (AlertFailed /\ ~writeFailed) => exitCode = 0

\* a run without RTDB_URL has exited with code 2 before any GET
C13_Witness ==
  /\ ~urlSet
  /\ pc = "exited"
  /\ exitCode = 2
  /\ reqs = <<>>
  /\ written = <<>>

\* C14: the run never ends with exit code 0 without having written the
\* artifacts: whatever the response, end, error, abort and timeout events,
\* a run that has exited with code 0 has written all seven files.
C14_ExitZeroOnlyAfterWriting ==
  (pc = "exited" /\ exitCode = 0) => written = Artifacts


\* C18: the alert is sent only after the fetch has resolved and the
\* validation has passed: a run that has sent an alert has a resolved fetch
\* with a current object, a number as current.value and a current.ts; the
\* snapshot { current: { value: 10 } } (no ts) sends no alert, and neither
\* does a run whose fetch is rejected or still pending.
C18_AlertOnlyAfterValidation ==
  /\ alertMsgs # <<>> =>
       /\ fetchP.st = "resolved"
       /\ ~MissingValueOrTs(fetchP.val)
       /\ pc # "awaitFetch"
  /\ fetchP.val = Snapshot(Num(10000), Undefined) => alertMsgs = <<>>
  /\ fetchP.st # "resolved" => alertMsgs = <<>> /\ alertReq.st = "none"

\* the alert for 27.504 is in flight, after the fetch resolved
C18_Witness ==
  /\ variant = "alerting"
  /\ fetchP.st = "resolved"
  /\ RawValue = Num(27504)
  /\ pc = "awaitAlert"
  /\ Len(alertMsgs) = 1
  /\ alertReq.st = "sent"

\* the document the variant publishes for the fetched snapshot
Published == IF variant = "offset" THEN minusOneDeg(fetchP.val) ELSE fetchP.val

\* C19: the run reaches its success outcome (the final OK log, after which
\* it exits with code 0) only when this run has written all seven artifacts,
\* in the order current.txt, txt, data.json, index.html, _headers,
\* robots.txt, sitemap.xml, every one of them from the one fetched snapshot.
C19_SuccessOnlyAfterAllArtifacts ==
  pc = "finished"
    => /\ written = <<"current.txt", "txt", "data.json", "index.html",
                      "_headers", "robots.txt", "sitemap.xml">>
       /\ ~writeFailed
       /\ exitCode = -1
       /\ \A f \in ArtifactNames : files[f].gen = "cur"
       /\ fetchP.st = "resolved"
       /\ files["current.txt"].str = CurrentStr(Get(Get(Published, "current"), "value"))
       /\ files["txt"].lines = flattenKV(Published, <<>>, <<>>)
       /\ files["data.json"].doc = Published
       /\ files["index.html"].doc = Published
       /\ files["index.html"].str = files["current.txt"].str

\* the offset variant has logged OK after publishing 23.4 - 1
C19_Witness ==
  /\ variant = "offset"
  /\ pc = "finished"
  /\ RawValue = Num(23400)
  /\ files["current.txt"].str = "22.40"
  /\ Len(written) = 7


\* a <= b for strings
LexLeq(a, b) == a = b \/ LexLess(a, b)

RECURSIVE KeysAvoid(_, _)
\* every key of x, at every depth, is non-empty and has no code unit of bad
KeysAvoid(x, bad) ==
  x.t \in {"object", "array"} =>
    \A i \in 1..Len(x.kv) :
      /\ KeyChars(x.kv[i].k) # <<>>
      /\ \A c \in 1..Len(KeyChars(x.kv[i].k)) : KeyChars(x.kv[i].k)[c] \notin bad
      /\ KeysAvoid(x.kv[i].v, bad)

\* the dotted paths of the lines of flat are in non-decreasing order
PathsNonDecreasing ==
  \A i \in 1..(Len(flat) - 1) : LexLeq(flat[i].path, flat[i + 1].path)

\* C15: for every document, the dotted paths of the lines flattenKV
\* returns are, in output order, lexicographically non-decreasing.
C15_PathsSorted == applied = "flattenKV" => PathsNonDecreasing

\* the code units up to "." (space ! " # $ % & ' ( ) * + , - .)
UpToDot == 0..DotChars[1]

\* C15, as the code has it: flattenKV visits the keys of each object in
\* ascending order, and the dotted paths of its lines are non-decreasing for
\* every document whose keys are non-empty and have no character that sorts
\* at or below "." (such as "-" or "." itself).
C15_PathsSortedForKeysAboveDot ==
  (applied = "flattenKV" /\ KeysAvoid(arg, UpToDot)) => PathsNonDecreasing

\* flattenKV has flattened { value: ..., a: { value: ..., b: [...] } }, whose
\* keys were inserted in descending order, into four lines
C15_Witness ==
  /\ applied = "flattenKV"
  /\ KeysAvoid(arg, UpToDot)
  /\ arg.t = "object"
  /\ Len(arg.kv) = MaxKeys
  /\ arg.kv[1].k = "value"
  /\ arg.kv[2].k = "a"
  /\ Len(flat) = 4
  /\ flat[4].path = KeyChars("value")


RECURSIVE OnlyValueShifted(_, _)
\* y is x with every finite number under a key "value" of an object replaced
\* by that number minus 1 (1000 thousandths) rounded to hundredths, and with
\* nothing else changed: same types, same keys in the same order, same array
\* lengths, same other values
OnlyValueShifted(x, y) ==
  IF x.t \in {"object", "array"}
    THEN /\ y.t = x.t
         /\ Len(y.kv) = Len(x.kv)
         /\ \A i \in 1..Len(x.kv) :
              /\ y.kv[i].k = x.kv[i].k
              /\ IF x.t = "object" /\ x.kv[i].k = "value" /\ IsFinite(x.kv[i].v)
                   THEN /\ IsFinite(y.kv[i].v)
                        /\ y.kv[i].v.n % 10 = 0
                        /\ Abs(y.kv[i].v.n - (x.kv[i].v.n - 1000)) <= 5
                   ELSE OnlyValueShifted(x.kv[i].v, y.kv[i].v)
    ELSE y = x

\* C16: minusOneDeg changes only the fields named "value" that hold a finite
\* number, at every depth through objects and arrays, replacing each by its
\* value minus 1 rounded to two decimals; every other key and value, the key
\* set, the key order and the array lengths of the result are those of the
\* input.  (The input is left as it was: minusOneDeg assigns only to the
\* objects it creates, and arg keeps its value.)
C16_OnlyValueFieldsChange ==
  applied \in {"minusOneDeg", "minusOneDegTwice"} => OnlyValueShifted(arg, shifted)

RECURSIVE HasFiniteValue(_)
\* x holds, at some depth, a field named "value" with a finite number
HasFiniteValue(x) ==
  /\ x.t \in {"object", "array"}
  /\ \E i \in 1..Len(x.kv) :
       \/ x.t = "object" /\ x.kv[i].k = "value" /\ IsFinite(x.kv[i].v)
       \/ HasFiniteValue(x.kv[i].v)

\* C17: minusOneDeg is not idempotent: for every document with at least one
\* finite numeric "value" field, minusOneDeg(minusOneDeg(d)) differs from
\* minusOneDeg(d), each such field being lower by 1 again.
C17_NotIdempotent ==
  (applied = "minusOneDegTwice" /\ HasFiniteValue(arg))
    => /\ shiftedTwice # shifted
       /\ OnlyValueShifted(shifted, shiftedTwice)


RECURSIVE LeafCount(_)
RECURSIVE LeafCountEntries(_)
\* the number of leaves of x: the values, at any depth, that are null or not
\* an object
LeafCount(x) ==
  IF x.t \in {"object", "array"} THEN LeafCountEntries(x.kv) ELSE 1

LeafCountEntries(kv) ==
  IF kv = <<>> THEN 0 ELSE LeafCount(Head(kv).v) + LeafCountEntries(Tail(kv))

\* no two lines of flat have the same dotted path
PathsDistinct ==
  \A i, j \in 1..Len(flat) : i # j => flat[i].path # flat[j].path

\* C20: for every document, flattenKV emits exactly one line per leaf value
\* (a value that is null or not an object) and no two of its lines have the
\* same dotted path, keys containing "." and empty nested objects and arrays
\* included.
C20_OneLinePerLeafDistinctPaths ==
  applied = "flattenKV" => Len(flat) = LeafCount(arg) /\ PathsDistinct

\* C20, as the code has it: flattenKV emits exactly one line per leaf value
\* (none for an empty nested object or array), and the dotted paths of its
\* lines are pairwise distinct for every document whose keys are non-empty
\* and contain no ".".
C20_DistinctPathsForKeysWithoutDot ==
  applied = "flattenKV"
    => /\ Len(flat) = LeafCount(arg)
       /\ KeysAvoid(arg, {DotChars[1]}) => PathsDistinct

\* flattenKV has flattened { "a-b": [], value: { value: ..., b: [...] } }:
\* no line for the empty array, three lines for the three leaves
C20_Witness ==
  /\ applied = "flattenKV"
  /\ KeysAvoid(arg, {DotChars[1]})
  /\ arg.t = "object"
  /\ Len(arg.kv) = MaxKeys
  /\ arg.kv[1] = KV("a-b", Arr(<<>>))
  /\ arg.kv[2].k = "value"
  /\ Len(flat) = 3
  /\ PathsDistinct

====
